---- MODULE Spec2Model ----
(***************************************************************************)
(* A model of the Medicine Tracker backend (src/main.py): one table,      *)
(* Medicine, behind six HTTP handlers, and a directory of uploaded files.  *)
(*                                                                         *)
(* Values.  A Python Optional[T] is None or Some(v).  Every column of a    *)
(* row and every entry of a request body is such a value, so that an      *)
(* explicit JSON null (None) and a supplied value (Some(v)) differ from a  *)
(* field the request left out (the key is not in the body's DOMAIN).       *)
(*                                                                         *)
(* Storage.  The table is a SQLite table whose primary key is the single   *)
(* INTEGER column id (line 19), that is, the rowid: an insert without an   *)
(* id takes the largest rowid in the table plus one, and a SELECT without  *)
(* ORDER BY scans the table in rowid order.  name, dose, time_of_day and   *)
(* active are NOT NULL columns (lines 11-15: not Optional), notes and      *)
(* prescription_url are nullable (lines 14, 16).  The ORM's flush writes   *)
(* only the attributes whose value differs from the one it loaded.         *)
(***************************************************************************)
EXTENDS Integers, Sequences, FiniteSets, TLC

VARIABLES
    table,      \* the rows of the Medicine table
    files,      \* the names of the files in the upload directory
    last,       \* the last request that ended, with its response
    sess,       \* the open sessions of requests that are under way
    nborn,      \* history: the number of inserts so far
    nwrites,    \* history: the number of update and upload requests so far
    deleted,    \* history: the ids whose delete has succeeded
    pristine    \* history: the created records no update, upload or delete has touched

vars == <<table, files, last, sess, nborn, nwrites, deleted, pristine>>

----------------------------------------------------------------------------
\* Bounds of the model.

\* The number of inserts in a run.
MaxCreates == 3

\* The number of update and upload requests in a run of whole requests.
MaxWrites == 1

\* The number of update and upload requests in a run of interleaved requests.
MaxSessions == 2

----------------------------------------------------------------------------
\* Values and the data model.

None == <<>>

Some(v) == <<v>>

\* The fields of MedicineBase.
Cols == {"name", "dose", "time_of_day", "notes", "active", "prescription_url"}

\* The columns declared without Optional: NOT NULL in the table.
NotNullCols == {"name", "dose", "time_of_day", "active"}

\* A variant of Default in which a record is inactive unless the request says so.
DefaultInactive(k) == IF k = "active" THEN Some(FALSE) ELSE None

\* The defaults of the fields a request may leave out.
Default(k) == IF k = "active" THEN Some(TRUE) ELSE None

\* The fields of MedicineRead.
ReadCols == Cols \cup {"id"}

\* The directory of the uploaded files.
UPLOAD_DIR == "prescriptions"

\* The status codes of the responses.
OK == 200

NotFound == 404

ServerError == 500

----------------------------------------------------------------------------
\* The inputs of the requests.

\* Bodies of POST /medicines.
CreateBodies ==
    { [name |-> Some("A"), dose |-> Some("5mg"), time_of_day |-> Some("morning")],
      [name |-> Some("B"), dose |-> Some("10ml"), time_of_day |-> Some(""),
       notes |-> Some("Syrup"), active |-> Some(FALSE),
       prescription_url |-> Some("old.png")] }

\* Bodies of PUT /medicines/{id}: the keys are the fields the request set.
UpdateBodies ==
    { [name |-> Some("B"), time_of_day |-> Some("evening")],
      [name |-> Some("A"), notes |-> None, active |-> Some(FALSE)],
      [name |-> None] }

\* Values of the time_of_day query parameter; None: the parameter is absent.
Filters == {None, Some(""), Some("morning")}

\* Names of uploaded files.
Filenames == {"rx.png"}

\* The ids requests name: every id an insert can assign.
Ids == 1 .. MaxCreates

\* The requests that run concurrently.
Workers == {1, 2}

----------------------------------------------------------------------------
\* The table.

IdsOf(t) == {r.id : r \in t}

\* session.get(Medicine, id): the rows with that primary key.
SessionGet(t, id) == {r \in t : r.id = id}

RowOf(t, id) == CHOOSE r \in t : r.id = id

\* A variant of NextRowid that counts the rows.
NextRowidByCount(t) == Cardinality(t) + 1

\* A variant of NextRowid that takes the smallest rowid no row has.
NextRowidFillingGaps(t) ==
    CHOOSE n \in 1 .. (Cardinality(t) + 1) :
        /\ n \notin IdsOf(t)
        /\ \A m \in 1 .. (n - 1) : m \in IdsOf(t)

\* The rowid of an insert that gives none: the largest one in the table plus one.
NextRowid(t) ==
    IF t = {} THEN 1
    ELSE (CHOOSE m \in IdsOf(t) : \A i \in IdsOf(t) : i <= m) + 1

\* Medicine.from_orm(medicine): every field of MedicineBase, the ones the
\* request left out at their defaults.
FromOrm(body) == [k \in Cols |-> IF k \in DOMAIN body THEN body[k] ELSE Default(k)]

\* session.add(db_medicine); session.commit(): the row as inserted.  born is
\* history: the serial number of the insert, which tells a record from a later
\* one with the same id.
InsertRow(t, vals, serial) ==
    [k \in Cols \cup {"id", "born"} |->
        IF k = "id" THEN NextRowid(t)
        ELSE IF k = "born" THEN serial
        ELSE vals[k]]

\* The response model MedicineRead of a row.
MedicineRead(r) == [k \in ReadCols |-> r[k]]

\* A set of rows in rowid order.
RECURSIVE ByRowid(_)
ByRowid(rows) ==
    IF rows = {} THEN <<>>
    ELSE LET r == CHOOSE x \in rows : \A y \in rows : x.id <= y.id
         IN  <<r>> \o ByRowid(rows \ {r})

\* `if time_of_day:` the truth value of the query parameter.
Truthy(p) == p # None /\ p # Some("")

\* select(Medicine), with the where clause when the parameter is truthy.
Select(t, p) == IF Truthy(p) THEN {r \in t : r.time_of_day = p} ELSE t

\* for key, value in update_data.items(): setattr(med, key, value)
SetAttrs(med, data) ==
    [k \in DOMAIN med |-> IF k \in DOMAIN data THEN data[k] ELSE med[k]]

\* The attributes of med the flush writes: those that differ from the loaded row.
Dirty(loaded, med) == {k \in Cols : med[k] # loaded[k]}

\* session.commit() of a loaded and modified row fails: the UPDATE matches no
\* row, or sets a NOT NULL column to NULL.  Nothing dirty: no UPDATE is sent.
FlushFails(t, loaded, med) ==
    /\ Dirty(loaded, med) # {}
    /\ \/ SessionGet(t, med.id) = {}
       \/ \E k \in Dirty(loaded, med) \cap NotNullCols : med[k] = None

\* The table after a commit that succeeds: the dirty columns of the row with
\* med's id are written, every other column and row is left as it is.
Flush(t, loaded, med) ==
    { IF r.id = med.id
        THEN [k \in DOMAIN r |-> IF k \in Dirty(loaded, med) THEN med[k] ELSE r[k]]
        ELSE r : r \in t }

\* A variant of UploadName that leaves the id out.
UploadNameBare(id, filename) == filename

\* filename = f"{medicine_id}_{file.filename}"
UploadName(id, filename) == ToString(id) \o "_" \o filename

\* f"prescriptions/{filename}"
UploadUrl(name) == UPLOAD_DIR \o "/" \o name

----------------------------------------------------------------------------
\* Responses.

Response(op, id, arg, status, body, file) ==
    [op |-> op, id |-> id, arg |-> arg, status |-> status, body |-> body, file |-> file]

NoSession == [pc |-> "idle"]

Init ==
    /\ table = {}
    /\ files = {}
    /\ last = Response("none", 0, None, OK, <<>>, None)
    /\ sess = [w \in Workers |-> NoSession]
    /\ nborn = 0
    /\ nwrites = 0
    /\ deleted = {}
    /\ pristine = {}

\* pristine without the records with this id.
Touch(id) == {p \in pristine : p.id # id}

----------------------------------------------------------------------------
\* The handlers, each run from its request to its response in one step.

\* POST /medicines
CreateMedicine(body) ==
    /\ nborn < MaxCreates
    /\ LET row == InsertRow(table, FromOrm(body), nborn + 1)
       IN  /\ table' = table \cup {row}
           /\ last' = Response("create", row.id, body, OK, <<MedicineRead(row)>>, None)
           /\ pristine' = Touch(row.id) \cup {[id |-> row.id, body |-> body]}
    /\ nborn' = nborn + 1
    /\ UNCHANGED <<files, sess, nwrites, deleted>>

\* GET /medicines?time_of_day=
ListMedicines(p) ==
    /\ LET rows == ByRowid(Select(table, p))
       IN  last' = Response("list", 0, p, OK,
                            [i \in 1 .. Len(rows) |-> MedicineRead(rows[i])], None)
    /\ UNCHANGED <<table, files, sess, nborn, nwrites, deleted, pristine>>

\* GET /medicines/{medicine_id}
GetMedicine(id) ==
    /\ IF SessionGet(table, id) = {}
         THEN last' = Response("get", id, None, NotFound, <<>>, None)
         ELSE last' = Response("get", id, None, OK, <<MedicineRead(RowOf(table, id))>>, None)
    /\ UNCHANGED <<table, files, sess, nborn, nwrites, deleted, pristine>>

\* PUT /medicines/{medicine_id}
UpdateMedicine(id, body) ==
    /\ nwrites < MaxWrites
    /\ nwrites' = nwrites + 1
    /\ IF SessionGet(table, id) = {}
         THEN /\ last' = Response("update", id, body, NotFound, <<>>, None)
              /\ UNCHANGED <<table, pristine>>
         ELSE LET loaded == RowOf(table, id)
                  med == SetAttrs(loaded, body)
              IN  /\ pristine' = Touch(id)
                  /\ IF FlushFails(table, loaded, med)
                       THEN /\ last' = Response("update", id, body, ServerError, <<>>, None)
                            /\ UNCHANGED table
                       ELSE /\ table' = Flush(table, loaded, med)
                            /\ last' = Response("update", id, body, OK,
                                                <<MedicineRead(RowOf(table', id))>>, None)
    /\ UNCHANGED <<files, sess, nborn, deleted>>

\* DELETE /medicines/{medicine_id}
DeleteMedicine(id) ==
    /\ IF SessionGet(table, id) = {}
         THEN /\ last' = Response("delete", id, None, NotFound, <<>>, None)
              /\ UNCHANGED <<table, deleted, pristine>>
         ELSE /\ table' = table \ SessionGet(table, id)
              /\ last' = Response("delete", id, None, OK, <<>>, None)
              /\ deleted' = deleted \cup {id}
              /\ pristine' = Touch(id)
    /\ UNCHANGED <<files, sess, nborn, nwrites>>

\* What the write of the uploaded file does: it succeeds, or open() fails and
\* leaves no file, or the copy fails and leaves a partial one.
IoOutcomes == {"ok", "open_fails", "copy_fails"}

\* The upload directory after the write of the file called name.
Written(fs, name, io) == IF io = "open_fails" THEN fs ELSE fs \cup {name}

\* POST /upload-prescription/{medicine_id}
UploadPrescription(id, filename, io) ==
    /\ nwrites < MaxWrites
    /\ nwrites' = nwrites + 1
    /\ LET arg == [filename |-> filename, io |-> io]
           name == UploadName(id, filename)
       IN  IF SessionGet(table, id) = {}
             THEN /\ last' = Response("upload", id, arg, NotFound, <<>>, None)
                  /\ UNCHANGED <<table, files, pristine>>
             ELSE LET loaded == RowOf(table, id)
                      med == SetAttrs(loaded, [prescription_url |-> Some(UploadUrl(name))])
                  IN  /\ pristine' = Touch(id)
                      /\ files' = Written(files, name, io)
                      /\ IF io # "ok" \/ FlushFails(table, loaded, med)
                           THEN /\ last' = Response("upload", id, arg, ServerError, <<>>, None)
                                /\ UNCHANGED table
                           ELSE /\ table' = Flush(table, loaded, med)
                                /\ last' = Response("upload", id, arg, OK, <<>>,
                                                    RowOf(table', id).prescription_url)
    /\ UNCHANGED <<sess, nborn, deleted>>

Next ==
    \/ \E body \in CreateBodies : CreateMedicine(body)
    \/ \E p \in Filters : ListMedicines(p)
    \/ \E id \in Ids : GetMedicine(id)
    \/ \E id \in Ids, body \in UpdateBodies : UpdateMedicine(id, body)
    \/ \E id \in Ids : DeleteMedicine(id)
    \/ \E id \in Ids, f \in Filenames, io \in IoOutcomes : UploadPrescription(id, f, io)

Spec == Init /\ [][Next]_vars

----------------------------------------------------------------------------
\* The handlers of update and upload as they run beside other requests: each
\* has its own session, and other requests may commit between its
\* session.get, its session.commit and its session.refresh.  found is history:
\* whether a row with the session's id was in the table at its commit.

Idle(w) == sess[w].pc = "idle"

End(w) == [sess EXCEPT ![w] = NoSession]

\* update_medicine up to the commit: session.get, then the setattr loop.
BeginUpdate(w, id, body) ==
    /\ Idle(w)
    /\ nwrites < MaxSessions
    /\ nwrites' = nwrites + 1
    /\ IF SessionGet(table, id) = {}
         THEN /\ last' = Response("update", id, body, NotFound, <<>>, None)
              /\ UNCHANGED sess
         ELSE /\ sess' = [sess EXCEPT ![w] =
                            [pc |-> "commit", op |-> "update", id |-> id, arg |-> body,
                             loaded |-> RowOf(table, id),
                             med |-> SetAttrs(RowOf(table, id), body),
                             found |-> TRUE]]
              /\ UNCHANGED last
    /\ UNCHANGED <<table, files, nborn, deleted, pristine>>

\* upload_prescription up to the write of the file: session.get.
BeginUpload(w, id, filename) ==
    /\ Idle(w)
    /\ nwrites < MaxSessions
    /\ nwrites' = nwrites + 1
    /\ IF SessionGet(table, id) = {}
         THEN /\ last' = Response("upload", id, [filename |-> filename, io |-> "none"],
                                  NotFound, <<>>, None)
              /\ UNCHANGED sess
         ELSE /\ sess' = [sess EXCEPT ![w] =
                            [pc |-> "commit", op |-> "upload", id |-> id, arg |-> filename,
                             loaded |-> RowOf(table, id),
                             med |-> RowOf(table, id),
                             found |-> TRUE]]
              /\ UNCHANGED last
    /\ UNCHANGED <<table, files, nborn, deleted, pristine>>

\* update_medicine: session.add(med); session.commit()
CommitUpdate(w) ==
    /\ sess[w].pc = "commit"
    /\ sess[w].op = "update"
    /\ LET s == sess[w]
       IN  IF FlushFails(table, s.loaded, s.med)
             THEN /\ last' = Response("update", s.id, s.arg, ServerError, <<>>, None)
                  /\ sess' = End(w)
                  /\ UNCHANGED table
             ELSE /\ table' = Flush(table, s.loaded, s.med)
                  /\ sess' = [sess EXCEPT ![w].pc = "refresh",
                                           ![w].found = SessionGet(table, s.id) # {}]
                  /\ UNCHANGED last
    /\ pristine' = Touch(sess[w].id)
    /\ UNCHANGED <<files, nborn, nwrites, deleted>>

\* upload_prescription: the write of the file, the assignment of
\* prescription_url, session.add(med); session.commit()
CommitUpload(w, io) ==
    /\ sess[w].pc = "commit"
    /\ sess[w].op = "upload"
    /\ LET s == sess[w]
           name == UploadName(s.id, s.arg)
           med == SetAttrs(s.loaded, [prescription_url |-> Some(UploadUrl(name))])
       IN  /\ files' = Written(files, name, io)
           /\ IF io # "ok" \/ FlushFails(table, s.loaded, med)
                THEN /\ last' = Response("upload", s.id, [filename |-> s.arg, io |-> io],
                                         ServerError, <<>>, None)
                     /\ sess' = End(w)
                     /\ UNCHANGED table
                ELSE /\ table' = Flush(table, s.loaded, med)
                     /\ sess' = [sess EXCEPT ![w].pc = "refresh", ![w].med = med,
                                              ![w].found = SessionGet(table, s.id) # {}]
                     /\ UNCHANGED last
    /\ pristine' = Touch(sess[w].id)
    /\ UNCHANGED <<nborn, nwrites, deleted>>

\* session.refresh(med) and the response: the row is read again by its id; the
\* refresh fails when no row has it.
Refresh(w) ==
    /\ sess[w].pc = "refresh"
    /\ LET s == sess[w]
           arg == IF s.op = "upload" THEN [filename |-> s.arg, io |-> "ok"] ELSE s.arg
       IN  IF SessionGet(table, s.id) = {}
             THEN last' = Response(s.op, s.id, arg, ServerError, <<>>, None)
             ELSE IF s.op = "update"
               THEN last' = Response(s.op, s.id, arg, OK,
                                     <<MedicineRead(RowOf(table, s.id))>>, None)
               ELSE last' = Response(s.op, s.id, arg, OK, <<>>,
                                     RowOf(table, s.id).prescription_url)
    /\ sess' = End(w)
    /\ UNCHANGED <<table, files, nborn, nwrites, deleted, pristine>>

NextConc ==
    \/ \E body \in CreateBodies : CreateMedicine(body)
    \/ \E id \in Ids : DeleteMedicine(id)
    \/ \E w \in Workers, id \in Ids, body \in UpdateBodies : BeginUpdate(w, id, body)
    \/ \E w \in Workers, id \in Ids, f \in Filenames : BeginUpload(w, id, f)
    \/ \E w \in Workers : CommitUpdate(w)
    \/ \E w \in Workers, io \in IoOutcomes : CommitUpload(w, io)
    \/ \E w \in Workers : Refresh(w)

ConcSpec == Init /\ [][NextConc]_vars

----------------------------------------------------------------------------
\* The claims.

\* The ids of the records of a response body.
BodyIds(body) == {body[i].id : i \in 1 .. Len(body)}

\* The value a created record is to have in field k, from its request alone.
Supplied(body, k) ==
    IF k \in DOMAIN body THEN body[k]
    ELSE IF k = "active" THEN Some(TRUE)
    ELSE None

\* C1: once a delete of an id has succeeded, every later get, update and
\* delete of that id answers 404, whatever requests (creates among them) ran
\* in between.
C1_DeletedIdStaysNotFound ==
    [][ (last'.op \in {"get", "update", "delete"} /\ last'.id \in deleted)
            => last'.status = NotFound ]_vars

\* C2: an update of an existing record gives exactly the supplied fields the
\* supplied values and leaves the record's other fields, its id and every
\* other record as they were.
C2_UpdateSetsSuppliedOnly ==
    [][ (last'.op = "update" /\ SessionGet(table, last'.id) # {})
            => table' = { IF r.id = last'.id
                            THEN [k \in DOMAIN r |->
                                    IF k \in DOMAIN last'.arg THEN last'.arg[k] ELSE r[k]]
                            ELSE r : r \in table } ]_vars

\* C3: a create answers with a record that has an id, and a get of that id
\* before any update, upload or delete of it answers with the name, dose,
\* time_of_day, notes, active and prescription_url of the request, active
\* being true when the request left it out.
C3_CreateThenGet ==
    /\ last.op = "create" =>
          /\ last.status = OK
          /\ Len(last.body) = 1
          /\ last.body[1].id \in Nat \ {0}
          /\ last.body[1].id = last.id
    /\ last.op = "get" =>
          \A p \in pristine :
              p.id = last.id =>
                  /\ last.status = OK
                  /\ Len(last.body) = 1
                  /\ last.body[1].id = p.id
                  /\ \A k \in Cols : last.body[1][k] = Supplied(p.body, k)

\* C3's case: a get of an untouched record whose request left active out.
C3_Witness ==
    /\ last.op = "get"
    /\ last.status = OK
    /\ \E p \in pristine : p.id = last.id /\ "active" \notin DOMAIN p.body

\* C4: a list with a time_of_day filter t, the empty string included, answers
\* with exactly the records whose time_of_day is t; a list without a filter
\* answers with every record.
C4_FilterExact ==
    last.op = "list" =>
        {last.body[i] : i \in 1 .. Len(last.body)} =
            { MedicineRead(r) :
                r \in {x \in table : last.arg = None \/ x.time_of_day = last.arg} }

\* C5: an upload for an id that exists and whose write succeeds sets the
\* record's prescription_url to prescriptions/{id}_{filename} and that file
\* is in the upload directory; an upload for an id that does not exist
\* answers 404, writes no file and changes no record.
C5_Upload ==
    [][ last'.op = "upload" =>
          LET id == last'.id
              name == ToString(id) \o "_" \o last'.arg.filename
          IN  /\ (SessionGet(table, id) # {} /\ last'.arg.io = "ok") =>
                     /\ last'.status = OK
                     /\ \E r \in table' :
                            /\ r.id = id
                            /\ r.born = RowOf(table, id).born
                            /\ r.prescription_url = Some("prescriptions/" \o name)
                     /\ name \in files'
              /\ SessionGet(table, id) = {} =>
                     /\ last'.status = NotFound
                     /\ files' = files
                     /\ table' = table ]_vars

\* C5's case: an upload has succeeded.
C5_Witness ==
    /\ last.op = "upload"
    /\ last.status = OK
    /\ files # {}

\* As many ids as rows.
IdsUnique == Cardinality(IdsOf(table)) = Cardinality(table)

\* C6: no two records of the table have the same id, and no request changes
\* the id of a record.
C6_IdUniqueImmutable ==
    [][ /\ IdsUnique
        /\ IdsUnique'
        /\ \A r \in table : \A q \in table' : r.born = q.born => r.id = q.id ]_vars

\* C6's case: of two records one has been updated.
C6_Witness ==
    /\ Cardinality(table) >= 2
    /\ last.op = "update"
    /\ last.status = OK

\* C7: a request ends in success, in 404 only when the record is absent, or
\* in 500 only from the upload on an I/O failure.
C7_ErrorsExact ==
    /\ last.status \in {OK, NotFound, ServerError}
    /\ last.status = NotFound => SessionGet(table, last.id) = {}
    /\ last.status = ServerError => (last.op = "upload" /\ last.arg.io # "ok")

\* C8: a list answers with surviving records in the order of their creation,
\* filtered or not, and without a filter with all of them.
C8_InsertionOrder ==
    last.op = "list" =>
        /\ BodyIds(last.body) \subseteq IdsOf(table)
        /\ last.arg = None => BodyIds(last.body) = IdsOf(table)
        /\ \A i \in 1 .. Len(last.body) :
               last.body[i] = MedicineRead(RowOf(table, last.body[i].id))
        /\ \A i \in 1 .. Len(last.body) : \A j \in 1 .. Len(last.body) :
               i < j => RowOf(table, last.body[i].id).born
                            < RowOf(table, last.body[j].id).born

\* C8's case: a list of two or more records, one of them with the id of a
\* record deleted before.
C8_Witness ==
    /\ last.op = "list"
    /\ Len(last.body) >= 2
    /\ BodyIds(last.body) \cap deleted # {}

\* C9: of two updates of the same record that interleave, neither is refused
\* because of the other, and after the commit of the later one every field
\* both supplied has the value the later one supplied.
C9_LastWriteWins ==
    [][ \A w \in Workers : \A v \in Workers \ {w} :
          ( /\ sess[w].pc = "commit" /\ sess[w].op = "update"
            /\ sess'[w] # sess[w]
            /\ sess[v].pc = "refresh" /\ sess[v].op = "update"
            /\ sess[v].id = sess[w].id
            /\ sess[v].loaded.born = sess[w].loaded.born
            /\ \E r \in table : r.id = sess[w].id /\ r.born = sess[w].loaded.born
            /\ \A k \in DOMAIN sess[w].arg \cap NotNullCols : sess[w].arg[k] # None )
          => /\ sess'[w].pc = "refresh"
             /\ \A k \in DOMAIN sess[w].arg \cap DOMAIN sess[v].arg :
                    RowOf(table', sess[w].id)[k] = sess[w].arg[k] ]_vars

\* C10: whatever deletes, creates and updates run between an upload's
\* session.get and its commit, the upload adds no record, changes nothing but
\* the prescription_url of the record its session.get found, and does not
\* answer with success when no record had its id at the commit.
C10_UploadUnderInterleaving ==
    [][ \A w \in Workers :
          /\ (sess[w].pc = "commit" /\ sess[w].op = "upload" /\ sess'[w] # sess[w]) =>
                /\ {r.born : r \in table'} = {r.born : r \in table}
                /\ \A r \in table : \A q \in table' :
                       (r.born = q.born /\ r # q) =>
                           /\ r.born = sess[w].loaded.born
                           /\ \A k \in DOMAIN r \ {"prescription_url"} : r[k] = q[k]
          /\ ( /\ sess[w].pc = "refresh" /\ sess[w].op = "upload"
               /\ sess'[w].pc = "idle" /\ last'.status = OK )
                => sess[w].found ]_vars

====
